---- MODULE Spec2Model ----
(***************************************************************************)
(* The pending-request broker of keystache (tauriCommands.ts): two handler *)
(* registries, the register/unregister facade, and the listeners that      *)
(* resolve inbound sign_event_request / pay_invoice_request events against *)
(* the registered handlers and answer the backend through invoke().        *)
(*                                                                         *)
(* The source tree holds two revisions of the module:                      *)
(*   "part_001"      src/unnamed/part_001 (sign-event and pay-invoice)     *)
(*   "tauriCommands" src/src/tauriCommands.ts:1-82 (sign-event only, with  *)
(*                   a try/catch around the handler call)                  *)
(* The variable rev says which one is loaded; it never changes.            *)
(*                                                                         *)
(* Spec is the broker.  SpecApp is the page flow around it: the router of  *)
(* App (src/unnamed/part_000), the route guard ProtectedRoute              *)
(* (src/unnamed/part_002:10-40) and LoginPage (src/src/pages/LoginPage.tsx)*)
(* SpecHome is the broker together with the page component that registers *)
(* the UI handlers: HomePage (src/unnamed/part_005:1-131) with the         *)
(* part_001 revision, the older App (src/src/App.tsx) with the             *)
(* tauriCommands revision.  SpecDraw is the draw-and-retry loop of a       *)
(* registration, step by step.  SpecReload is the subscription of the      *)
(* listeners across hot module reloads.                                    *)
(***************************************************************************)
EXTENDS Integers, Sequences, FiniteSets, TLC

\* ---------------------------------------------------------------- bounds
\* getRandomInt(1000000) draws a handle in 0 .. 999999; the model draws in
\* 0 .. HandleRange-1.
HandleRange == 3
\* Calls of handleSignEventRequests / handlePayInvoiceRequests in one run.
MaxRegs == 2
\* Inbound requests in one run.
MaxReqs == 2
\* Submits of the login form in one run (SpecApp).
MaxSubmits == 4
\* Calls of handleSignEventRequests in one run of SpecDraw; more than
\* HandleRange, so that a call can find every handle in use.
MaxDrawCalls == 4
\* Hot reloads of the module in one run of SpecReload.
MaxReloads == 2
\* Mounts of the page component in one run of SpecHome.
MaxMounts == 2
\* In SpecHome the page component's registrations draw their handles in
\* 0 .. PageHandleRange-1.
PageHandleRange == 2

Handles == 0 .. (HandleRange - 1)

PageHandles == 0 .. (PageHandleRange - 1)

\* ------------------------------------------------------------ data model
Revisions == {"part_001", "tauriCommands"}

\* What a registered sign-event handler does when called: it returns true,
\* false or nothing (undefined), or it throws / its promise rejects.
SignEventRequestHandler == {"true", "false", "undefined", "throw"}

\* PayInvoiceResponse = "paid" | "failed" | "rejected"
PayInvoiceResponse == {"paid", "failed", "rejected"}

\* What a registered pay-invoice handler does when called.
PayInvoiceRequestHandler == PayInvoiceResponse \cup {"throw"}

\* event.payload.id of the n-th inbound request when it is a sign-event
\* request, event.payload when it is a pay-invoice request: the correlation
\* keys.  The backend issues a fresh one per request.
EventId(n) == <<"evt", n>>
Invoice(n) == <<"lnbc", n>>

\* An absent key of a registry object.
NoHandler == [reg |-> 0, beh |-> "none"]

\* rev                        the revision of the module that is loaded
\* signEventRequestHandlers,
\* payInvoiceRequestHandlers  the registries, handle -> [reg, beh]
\* unregisterFns              the closures returned by the registrations, in
\*                            order of registration: the kind and the captured
\*                            handlerId; regAt / calledAt are observations (how
\*                            many requests had arrived when the registration
\*                            was made / when the closure was first called,
\*                            NotCalled before that), the code keeps no such
\*                            record
\* requests                   the listener callback activations, in order of
\*                            arrival: the snapshot `handlers`, the loop
\*                            position `called`, the local `value`
\*                            (isApproved / response), the handler calls in
\*                            flight `inflight` and the calls made `invoked`
\* invokeLog                  the respond_to_... invoke() calls, in order
\* invokeResults              how each of those invoke() promises ended
VARIABLES rev, signEventRequestHandlers, payInvoiceRequestHandlers,
          unregisterFns, requests, invokeLog, invokeResults

\* location     the router's current path
\* guard        the ProtectedRoute instance: mounted, its state pubkey, its
\*              getPublicKey() call; answer is an observation (what the
\*              backend answered to that call)
\* login        the LoginPage instance: mounted, isLoading, the public key of
\*              the register call in flight ("none" when there is none);
\*              answer is an observation (how the last register call ended,
\*              "none" while a submit is running or before the first)
\* storePubkey  pubkey of the zustand store
\* submits      how many times the login form was submitted
VARIABLES location, guard, login, storePubkey, submits

\* home      the instance of the page component (HomePage / App): mounted,
\*           the state `open`, the refs resolveRejectRef and
\*           resolveRejectInvoiceRef (the number of the request whose promise
\*           the stored resolver settles, NoRequest for null), the
\*           registrations it made (regs) and the unregister closures its
\*           effects hold for cleanup (signUnreg, payUnreg, 0 for none);
\*           dirty says a state update waits for the next render, openSeen
\*           is `open` as of the last run of the [open] effect; mounts counts
\*           the mounts
\* promises  per request, the promise the UI handler returned to the
\*           listener: "none", "pending", or the value it was resolved with
\*           as long as the listener has not resumed
VARIABLES home, promises

\* draw      a call of handleSignEventRequests followed step by step
\*           (SpecDraw): pc, the handler passed and the current handlerId
VARIABLES draw

\* listeners the listen() calls made by the loaded module generations, in
\*           order: kind, generation, state of the subscription, and whether
\*           its unlisten was hooked to vite:beforeUpdate
\* heard     how many listeners received the last inbound event (observation)
VARIABLES listeners, heard

brokerVars == <<rev, signEventRequestHandlers, payInvoiceRequestHandlers,
                unregisterFns, requests, invokeLog, invokeResults>>

appVars == <<location, guard, login, storePubkey, submits>>

homeVars == <<home, promises>>

drawVars == <<draw>>

reloadVars == <<listeners, heard>>

vars == <<brokerVars, appVars, homeVars, drawVars, reloadVars>>

\* calledAt of a closure that has not been called yet.
NotCalled == -1

\* ------------------------------------------------------------- registry
\* Object.values(registry): the handlers present, in ascending key order
\* (integer-like keys of a JS object are enumerated in ascending order),
\* copied into an array when the for-of loop starts.
RECURSIVE ValuesFrom(_, _)
ValuesFrom(registry, h) ==
  IF h >= HandleRange THEN <<>>
  ELSE IF registry[h] = NoHandler THEN ValuesFrom(registry, h + 1)
  ELSE <<registry[h]>> \o ValuesFrom(registry, h + 1)

ObjectValues(registry) == ValuesFrom(registry, 0)

\* delete registry[handlerId]
DeleteKey(registry, handlerId) == [registry EXCEPT ![handlerId] = NoHandler]

\* registry[handlerId] = handler
SetKey(registry, handlerId, entry) == [registry EXCEPT ![handlerId] = entry]

\* Mutant: the generator only ever yields 0.
GetRandomInt_Zero == {0}

\* getRandomInt(1000000) (part_001:12-14): the values a draw can yield.
GetRandomInt == Handles

\* No call of handleSignEventRequests is in progress.
DrawIdle ==
  [pc |-> "idle", handler |-> "none", handlerId |-> 0, retried |-> FALSE]

\* The handle the draw-and-retry loop ends with: a draw for which
\* `while (registry[handlerId])` is false.
LoopExits(registry, handlerId) == registry[handlerId] = NoHandler

\* ------------------------------------------------------------- listeners
\* JS truthiness of a handler result, `if (isApproved)`.
Truthy(v) == v = "true"

\* typeof v === "boolean"
IsBoolean(v) == v \in {"true", "false"}

\* Mutant: the sign-event listener starts from an approving value.
InitIsApproved_Approving(r) == "true"

\* `let isApproved = false` (part_001:82), `let isApproved = undefined`
\* (tauriCommands.ts:48).
InitIsApproved(r) == IF r = "part_001" THEN "false" ELSE "undefined"

\* Mutant: the sign-event loop has no break.
SignBreaks_Never(r, isApproved) == FALSE

\* Does the sign-event loop break after this handler result?
\* part_001:85 `if (isApproved) break`;
\* tauriCommands.ts:58 `if (typeof isApproved === "boolean") break`.
SignBreaks(r, isApproved) ==
  IF r = "part_001" THEN Truthy(isApproved) ELSE IsBoolean(isApproved)

\* Is a throwing handler caught inside the loop?  Only tauriCommands.ts:50-56
\* has a try/catch; in part_001 the exception leaves the async callback.
Catches(r, kind) == r = "tauriCommands" /\ kind = "sign"

\* The value the catch block assigns (tauriCommands.ts:55).
CaughtValue == "false"

\* After the sign-event loop: tauriCommands.ts:63-65 turns undefined into
\* false; part_001 passes isApproved on as it is.
SignFinal(r, isApproved) ==
  IF r = "tauriCommands" /\ isApproved = "undefined" THEN "false"
  ELSE isApproved

\* `let response = "rejected"` (part_001:110).
InitResponse == "rejected"

\* Mutant: the pay-invoice loop has no break on "paid".
PayStep_NoBreak(response, newResponse) ==
  IF newResponse = "rejected"
  THEN [response |-> response, brk |-> FALSE]
  ELSE [response |-> newResponse, brk |-> FALSE]

\* Mutant: a "rejected" result is not skipped, it overwrites the response.
PayStep_Overwrite(response, newResponse) ==
  [response |-> newResponse, brk |-> newResponse = "paid"]

\* Mutant: a "rejected" result ends the loop (a veto).
PayStep_Veto(response, newResponse) ==
  IF newResponse = "rejected"
  THEN [response |-> "rejected", brk |-> TRUE]
  ELSE [response |-> newResponse, brk |-> newResponse = "paid"]

\* Mutant: the first result that is not "rejected" is kept.
PayStep_FirstWins(response, newResponse) ==
  IF newResponse = "rejected" \/ response # "rejected"
  THEN [response |-> response, brk |-> newResponse = "paid"]
  ELSE [response |-> newResponse, brk |-> newResponse = "paid"]

\* One turn of the pay-invoice loop body (part_001:112-123) on a returned
\* newResponse: the remembered response and whether the loop breaks.
PayStep(response, newResponse) ==
  IF newResponse = "rejected"
  THEN [response |-> response, brk |-> FALSE]
  ELSE [response |-> newResponse, brk |-> newResponse = "paid"]

\* Mutant: the response is keyed by the first request instead of the
\* request the callback was started for.
Respond_FirstKey(kind, key, value, req) ==
  [cmd |-> IF kind = "sign" THEN "respond_to_sign_event_request"
           ELSE "respond_to_pay_invoice_request",
   key |-> IF kind = "sign" THEN EventId(1) ELSE Invoice(1),
   value |-> value, req |-> req]

\* respondToSignEventRequest(eventId, approved) /
\* respondToPayInvoiceRequest(invoice, outcome): one invoke() to the backend.
Respond(kind, key, value, req) ==
  [cmd |-> IF kind = "sign" THEN "respond_to_sign_event_request"
           ELSE "respond_to_pay_invoice_request",
   key |-> key, value |-> value, req |-> req]

\* The answers the backend can give to an invoke().
InvokeAnswers == {"fulfilled", "rejected"}

\* What becomes of the promise returned by respondToSignEventRequest /
\* respondToPayInvoiceRequest: the listeners call them without await and
\* without .catch (part_001:89, :125, tauriCommands.ts:67), so a rejection
\* has no handler.
InvokeResult(answer) ==
  IF answer = "rejected" THEN "unhandled rejection" ELSE "fulfilled"

\* Mutant: the loop runs over the keys and looks each handler up in the
\* registry as it is now (`for (const id of Object.keys(registry)) await
\* registry[id](payload)`); calling a deleted entry throws.
HandlerToCall_Live(req, i) ==
  LET h == unregisterFns[req.handlers[i].reg].handlerId
      e == IF req.kind = "sign" THEN signEventRequestHandlers[h]
           ELSE payInvoiceRequestHandlers[h]
  IN IF e = NoHandler THEN [reg |-> req.handlers[i].reg, beh |-> "throw"]
     ELSE e

\* The handler the i-th turn of the for-of loop calls: the i-th element of
\* the array Object.values returned (part_001:83, :111).
HandlerToCall(req, i) == req.handlers[i]

\* Mutant: all handlers are called at once (Promise.all style).
CallsOfTurn_All(req, called) == (called + 1) .. Len(req.handlers)

\* The handler calls one loop turn starts before it suspends: `await
\* handler(event.payload)` calls one handler (part_001:84, :112).
CallsOfTurn(req, called) == {called + 1}

\* ------------------------------------------------------- page component
\* A handler registered by the page component: handleEvent, which opens the
\* dialog and returns a promise that the dialog is to resolve.
UiHandler == "ui"

\* null in a resolver ref.
NoRequest == 0

\* The page component when it is not mounted, after k mounts.
HomeUnmounted(k) ==
  [mounted |-> FALSE, open |-> FALSE, openSeen |-> FALSE, dirty |-> FALSE,
   resolveRejectRef |-> NoRequest, resolveRejectInvoiceRef |-> NoRequest,
   regs |-> {}, signUnreg |-> 0, payUnreg |-> 0, mounts |-> k]

\* Did this run of the listener call a handler, and was it a UI handler?
CalledUi(req) ==
  /\ req.pc = "await"
  /\ req.invoked[Len(req.invoked)].beh = UiHandler

\* handleEvent of the mounted instance, called for request n
\* (part_005:53-59, 65-71; App.tsx:22-28): setEvent / setInvoice,
\* setOpen(true), and the new promise's resolver goes into the ref.  The
\* handleEvent of an instance that is no longer mounted sets state and a ref
\* nobody reads.
HomeAfterCall(h, req, n) ==
  IF CalledUi(req) /\ h.mounted /\ req.invoked[Len(req.invoked)].reg \in h.regs
  THEN IF req.kind = "sign"
       THEN [h EXCEPT !.open = TRUE, !.dirty = TRUE, !.resolveRejectRef = n]
       ELSE [h EXCEPT !.open = TRUE, !.dirty = TRUE,
                      !.resolveRejectInvoiceRef = n]
  ELSE h

\* `return new Promise(...)`: the promise the listener awaits for request n.
PromisesAfterCall(p, req, n) ==
  IF CalledUi(req) THEN [p EXCEPT ![n] = "pending"] ELSE p

\* ------------------------------------------------------------ page flow
\* The public keys the backend and the login form can produce.
PublicKeys == {"npub1", "npub2"}

\* What `await getPublicKey()` can yield in ProtectedRoute: a key, an empty
\* string, nothing (null / undefined), or a rejected invoke ("error").
GetPublicKeyAnswers == PublicKeys \cup {"", "absent", "error"}

\* What `await invoke("register", ...)` can yield in LoginPage: a
\* RegisterResponse with status success or error, or a rejected invoke.
RegisterAnswers == {"success", "error", "rejected"}

\* `!response`
Falsy(response) == response \in {"", "absent"}

\* Mutant: setPublicKey stores whatever the backend returned.
SetPublicKey_NoEmptyCheck(answer) ==
  IF answer = "error" THEN "null" ELSE answer

\* setPublicKey() of ProtectedRoute (part_002:15-26): the value pubkey is
\* set to.
SetPublicKey(answer) ==
  IF answer = "error" THEN "null"
  ELSE IF Falsy(answer) THEN "null"
  ELSE answer

\* What ProtectedRoute renders (part_002:32-39).
ProtectedRouteRender(pubkey) ==
  IF pubkey = "null" THEN "Navigate" ELSE "children"

\* A ProtectedRoute instance right after its mount: useState(undefined) and
\* the mount effect has called setPublicKey().
GuardMounted ==
  [mounted |-> TRUE, pubkey |-> "undefined", call |-> "pending",
   answer |-> "none"]

GuardUnmounted ==
  [mounted |-> FALSE, pubkey |-> "undefined", call |-> "none",
   answer |-> "none"]

\* A LoginPage instance right after its mount: useState(false).
LoginMounted ==
  [mounted |-> TRUE, isLoading |-> FALSE, register |-> "none",
   answer |-> "none"]

LoginUnmounted ==
  [mounted |-> FALSE, isLoading |-> FALSE, register |-> "none",
   answer |-> "none"]

\* -------------------------------------------------------- subscription
\* The request kinds a revision of the module listens to.
ListenKinds(r) == IF r = "part_001" THEN <<"sign", "pay">> ELSE <<"sign">>

\* The listen() calls one evaluation of the module makes (part_001:81, 109;
\* tauriCommands.ts:47): the promises are pending, nothing is hooked yet.
ListenCalls(r, gen) ==
  [i \in DOMAIN ListenKinds(r) |->
     [kind |-> ListenKinds(r)[i], gen |-> gen, state |-> "subscribing",
      hooked |-> FALSE]]

\* ------------------------------------------------------------------ Init
Init ==
  /\ rev \in Revisions
  /\ signEventRequestHandlers = [h \in Handles |-> NoHandler]
  /\ payInvoiceRequestHandlers = [h \in Handles |-> NoHandler]
  /\ unregisterFns = <<>>
  /\ requests = <<>>
  /\ invokeLog = <<>>
  /\ invokeResults = <<>>
  /\ location = "/"
  /\ guard = GuardMounted
  /\ login = LoginUnmounted
  /\ storePubkey = ""
  /\ submits = 0
  /\ home = HomeUnmounted(0)
  /\ promises = [n \in 1 .. MaxReqs |-> "none"]
  /\ draw = DrawIdle
  /\ listeners = ListenCalls(rev, 1)
  /\ heard = 0

\* --------------------------------------------------------------- actions
\* handleSignEventRequests(handler)
HandleSignEventRequests(handler, handlerId) ==
  /\ Len(unregisterFns) < MaxRegs
  /\ LoopExits(signEventRequestHandlers, handlerId)
  /\ signEventRequestHandlers' =
       SetKey(signEventRequestHandlers, handlerId,
              [reg |-> Len(unregisterFns) + 1, beh |-> handler])
  /\ unregisterFns' =
       Append(unregisterFns, [kind |-> "sign", handlerId |-> handlerId,
                              regAt |-> Len(requests), calledAt |-> NotCalled])
  /\ UNCHANGED <<rev, payInvoiceRequestHandlers, requests, invokeLog,
                 invokeResults, appVars, homeVars,
                 drawVars, reloadVars>>

\* handlePayInvoiceRequests(handler); only part_001 has it.
HandlePayInvoiceRequests(handler, handlerId) ==
  /\ rev = "part_001"
  /\ Len(unregisterFns) < MaxRegs
  /\ LoopExits(payInvoiceRequestHandlers, handlerId)
  /\ payInvoiceRequestHandlers' =
       SetKey(payInvoiceRequestHandlers, handlerId,
              [reg |-> Len(unregisterFns) + 1, beh |-> handler])
  /\ unregisterFns' =
       Append(unregisterFns, [kind |-> "pay", handlerId |-> handlerId,
                              regAt |-> Len(requests), calledAt |-> NotCalled])
  /\ UNCHANGED <<rev, signEventRequestHandlers, requests, invokeLog,
                 invokeResults, appVars, homeVars,
                 drawVars, reloadVars>>

\* Mutant: the closure deletes its handle from both registries.
Unregister_Both(n) ==
  /\ n \in 1 .. Len(unregisterFns)
  /\ signEventRequestHandlers' =
       DeleteKey(signEventRequestHandlers, unregisterFns[n].handlerId)
  /\ payInvoiceRequestHandlers' =
       DeleteKey(payInvoiceRequestHandlers, unregisterFns[n].handlerId)
  /\ unregisterFns' =
       IF unregisterFns[n].calledAt = NotCalled
       THEN [unregisterFns EXCEPT ![n].calledAt = Len(requests)]
       ELSE unregisterFns
  /\ UNCHANGED <<rev, requests, invokeLog, invokeResults, appVars, homeVars,
                 drawVars, reloadVars>>

\* A call of the closure returned by registration number n; it may be called
\* any number of times.
Unregister(n) ==
  /\ n \in 1 .. Len(unregisterFns)
  /\ IF unregisterFns[n].kind = "sign"
     THEN /\ signEventRequestHandlers' =
               DeleteKey(signEventRequestHandlers, unregisterFns[n].handlerId)
          /\ UNCHANGED payInvoiceRequestHandlers
     ELSE /\ payInvoiceRequestHandlers' =
               DeleteKey(payInvoiceRequestHandlers, unregisterFns[n].handlerId)
          /\ UNCHANGED signEventRequestHandlers
  /\ unregisterFns' =
       IF unregisterFns[n].calledAt = NotCalled
       THEN [unregisterFns EXCEPT ![n].calledAt = Len(requests)]
       ELSE unregisterFns
  /\ UNCHANGED <<rev, requests, invokeLog, invokeResults, appVars, homeVars,
                 drawVars, reloadVars>>

\* Mutant: the response is sent before the handler is awaited.
Continue_EagerRespond(req, n, value, called, brk) ==
  IF ~brk /\ called < Len(req.handlers)
  THEN [request |-> [req EXCEPT
                       !.value = value, !.called = called + 1,
                       !.pc = "await",
                       !.inflight = CallsOfTurn(req, called),
                       !.invoked = Append(req.invoked,
                                          HandlerToCall(req, called + 1))],
        calls |-> <<Respond(req.kind, req.key, value, n)>>]
  ELSE LET final == IF req.kind = "sign" THEN SignFinal(rev, value) ELSE value
       IN [request |-> [req EXCEPT !.value = final, !.called = called,
                                   !.pc = "responded"],
           calls |-> <<Respond(req.kind, req.key, final, n)>>]

\* The synchronous run of a listener callback from one point of its loop:
\* with `value` remembered and handlers 1 .. called already settled, either
\* call the next handler and suspend in `await`, or leave the loop and
\* respond.  Returns the request record and the invoke() calls made.
Continue(req, n, value, called, brk) ==
  IF ~brk /\ called < Len(req.handlers)
  THEN [request |-> [req EXCEPT
                       !.value = value, !.called = called + 1,
                       !.pc = "await",
                       !.inflight = CallsOfTurn(req, called),
                       !.invoked = Append(req.invoked,
                                          HandlerToCall(req, called + 1))],
        calls |-> <<>>]
  ELSE LET final == IF req.kind = "sign" THEN SignFinal(rev, value) ELSE value
       IN [request |-> [req EXCEPT !.value = final, !.called = called,
                                   !.pc = "responded"],
           calls |-> <<Respond(req.kind, req.key, final, n)>>]

\* Mutant: the listener takes the handlers out of the registry it reads.
Arrive_Draining(kind, answer) ==
  /\ Len(requests) < MaxReqs
  /\ kind = "pay" => rev = "part_001"
  /\ LET n == Len(requests) + 1
         new == [kind |-> kind,
                 key |-> IF kind = "sign" THEN EventId(n) ELSE Invoice(n),
                 handlers |-> ObjectValues(IF kind = "sign"
                                           THEN signEventRequestHandlers
                                           ELSE payInvoiceRequestHandlers),
                 called |-> 0, pc |-> "await",
                 inflight |-> {}, invoked |-> <<>>,
                 value |-> IF kind = "sign" THEN InitIsApproved(rev)
                           ELSE InitResponse]
         c == Continue(new, n, new.value, 0, FALSE)
     IN /\ requests' = Append(requests, c.request)
        /\ invokeLog' = invokeLog \o c.calls
        /\ invokeResults' =
             invokeResults \o [i \in DOMAIN c.calls |-> InvokeResult(answer)]
        /\ c.calls = <<>> => answer = "fulfilled"
        /\ home' = HomeAfterCall(home, c.request, n)
        /\ promises' = PromisesAfterCall(promises, c.request, n)
  /\ signEventRequestHandlers' =
       IF kind = "sign" THEN [h \in Handles |-> NoHandler]
       ELSE signEventRequestHandlers
  /\ payInvoiceRequestHandlers' =
       IF kind = "pay" THEN [h \in Handles |-> NoHandler]
       ELSE payInvoiceRequestHandlers
  /\ UNCHANGED <<rev, unregisterFns, appVars, drawVars, reloadVars>>

\* An inbound event: the listener callback starts, takes Object.values of
\* its registry and runs up to its first await (or to the response when no
\* handler is registered).
Arrive(kind, answer) ==
  /\ Len(requests) < MaxReqs
  /\ kind = "pay" => rev = "part_001"
  /\ LET n == Len(requests) + 1
         new == [kind |-> kind,
                 key |-> IF kind = "sign" THEN EventId(n) ELSE Invoice(n),
                 handlers |-> ObjectValues(IF kind = "sign"
                                           THEN signEventRequestHandlers
                                           ELSE payInvoiceRequestHandlers),
                 called |-> 0, pc |-> "await",
                 inflight |-> {}, invoked |-> <<>>,
                 value |-> IF kind = "sign" THEN InitIsApproved(rev)
                           ELSE InitResponse]
         c == Continue(new, n, new.value, 0, FALSE)
     IN /\ requests' = Append(requests, c.request)
        /\ invokeLog' = invokeLog \o c.calls
        /\ invokeResults' =
             invokeResults \o [i \in DOMAIN c.calls |-> InvokeResult(answer)]
        /\ c.calls = <<>> => answer = "fulfilled"
        /\ home' = HomeAfterCall(home, c.request, n)
        /\ promises' = PromisesAfterCall(promises, c.request, n)
  /\ UNCHANGED <<rev, signEventRequestHandlers, payInvoiceRequestHandlers,
                 unregisterFns, appVars, drawVars, reloadVars>>

\* The listener callback of request n resumes with `result`, the outcome of
\* the handler it awaited, and runs to its next await, to its response, or
\* is left by the exception.
Resume(n, result, answer) ==
  /\ LET req == [requests[n] EXCEPT
                   !.inflight = requests[n].inflight \ {requests[n].called}]
     IN IF result = "throw" /\ ~Catches(rev, req.kind)
        THEN /\ requests' = [requests EXCEPT ![n] = [req EXCEPT !.pc = "threw"]]
             /\ answer = "fulfilled"
             /\ promises' = [promises EXCEPT ![n] = "none"]
             /\ UNCHANGED <<invokeLog, invokeResults, home>>
        ELSE LET c ==
                   IF req.kind = "sign"
                   THEN LET isApproved == IF result = "throw" THEN CaughtValue
                                          ELSE result
                        IN Continue(req, n, isApproved, req.called,
                                    SignBreaks(rev, isApproved))
                   ELSE LET s == PayStep(req.value, result)
                        IN Continue(req, n, s.response, req.called, s.brk)
             IN /\ requests' = [requests EXCEPT ![n] = c.request]
                /\ invokeLog' = invokeLog \o c.calls
                /\ invokeResults' =
                     invokeResults \o
                       [i \in DOMAIN c.calls |-> InvokeResult(answer)]
                /\ c.calls = <<>> => answer = "fulfilled"
                /\ home' = HomeAfterCall(home, c.request, n)
                /\ promises' =
                     PromisesAfterCall([promises EXCEPT ![n] = "none"],
                                       c.request, n)
  /\ UNCHANGED <<rev, signEventRequestHandlers, payInvoiceRequestHandlers,
                 unregisterFns, appVars, drawVars, reloadVars>>

\* The awaited handler of request n settles by itself (a handler that is not
\* the page component's).
Settle(n, answer) ==
  /\ n \in 1 .. Len(requests)
  /\ requests[n].pc = "await"
  /\ requests[n].invoked[requests[n].called].beh # UiHandler
  /\ Resume(n, requests[n].invoked[requests[n].called].beh, answer)

Next ==
  \/ \E handler \in SignEventRequestHandler, handlerId \in Handles :
       HandleSignEventRequests(handler, handlerId)
  \/ \E handler \in PayInvoiceRequestHandler, handlerId \in Handles :
       HandlePayInvoiceRequests(handler, handlerId)
  \/ \E n \in 1 .. MaxRegs : Unregister(n)
  \/ \E kind \in {"sign", "pay"}, answer \in InvokeAnswers :
       Arrive(kind, answer)
  \/ \E n \in 1 .. MaxReqs, answer \in InvokeAnswers : Settle(n, answer)

Spec == Init /\ [][Next]_vars

\* --------------------------------------------------- page flow: actions
\* The getPublicKey() call of the mounted ProtectedRoute settles.
GetPublicKeySettles(answer) ==
  /\ guard.mounted
  /\ guard.call = "pending"
  /\ guard' = [guard EXCEPT !.call = "done", !.answer = answer,
                            !.pubkey = SetPublicKey(answer)]
  /\ UNCHANGED <<location, login, storePubkey, submits, brokerVars, homeVars,
                 drawVars, reloadVars>>

\* <Navigate to="/login" replace /> is rendered: the router leaves "/" and
\* shows LoginPage (part_000:14).
Redirect ==
  /\ guard.mounted
  /\ ProtectedRouteRender(guard.pubkey) = "Navigate"
  /\ location' = "/login"
  /\ guard' = GuardUnmounted
  /\ login' = LoginMounted
  /\ UNCHANGED <<storePubkey, submits, brokerVars, homeVars,
                 drawVars, reloadVars>>

\* onSubmit of LoginPage up to its await (LoginPage.tsx:48-60); the submit
\* button is disabled while isLoading.
Submit(publicKey) ==
  /\ login.mounted
  /\ ~login.isLoading
  /\ submits < MaxSubmits
  /\ login' = [login EXCEPT !.isLoading = TRUE, !.register = publicKey,
                            !.answer = "none"]
  /\ submits' = submits + 1
  /\ UNCHANGED <<location, guard, storePubkey, brokerVars, homeVars,
                 drawVars, reloadVars>>

\* The register call settles and onSubmit runs to its end
\* (LoginPage.tsx:57-71).
RegisterSettles(answer) ==
  /\ login.mounted
  /\ login.register # "none"
  /\ IF answer = "rejected"
     THEN /\ login' = [login EXCEPT !.register = "none", !.answer = answer]
          /\ UNCHANGED <<location, guard, storePubkey>>
     ELSE IF answer = "error"
     THEN /\ login' = [login EXCEPT !.register = "none", !.isLoading = FALSE,
                                    !.answer = answer]
          /\ UNCHANGED <<location, guard, storePubkey>>
     ELSE /\ storePubkey' = login.register
          /\ location' = "/"
          /\ login' = [LoginUnmounted EXCEPT !.answer = answer]
          /\ guard' = GuardMounted
  /\ UNCHANGED <<submits, brokerVars, homeVars,
                 drawVars, reloadVars>>

AppNext ==
  \/ \E answer \in GetPublicKeyAnswers : GetPublicKeySettles(answer)
  \/ Redirect
  \/ \E publicKey \in PublicKeys : Submit(publicKey)
  \/ \E answer \in RegisterAnswers : RegisterSettles(answer)

SpecApp == Init /\ [][AppNext]_vars

\* ------------------------------------------------ page component: actions
\* The page component of the loaded revision: HomePage (part_005) imports
\* both registration functions of part_001, App (src/src/App.tsx) imports
\* handleSignEventRequests of src/src/tauriCommands.ts.
IsHomePage(r) == r = "part_001"

\* resolve(value) on the resolver stored for request n: it settles the
\* promise if that is still pending, and is a no-op otherwise.
ResolveWith(p, n, value) ==
  IF n # NoRequest /\ p[n] = "pending" THEN [p EXCEPT ![n] = value] ELSE p

\* calledAt of a closure after it has been called.
Called(fns, n) ==
  IF fns[n].calledAt = NotCalled
  THEN [fns EXCEPT ![n].calledAt = Len(requests)]
  ELSE fns

\* The component mounts and its effects run.  HomePage (part_005:42-74):
\* the [open] effect calls handleReject() with a null ref, the sign-event
\* effect registers handleEvent, the pay-invoice effect registers its
\* handleEvent; both keep the closure for cleanup.  App (App.tsx:21-31)
\* registers handleEvent and drops the closure.
Mount(signId, payId) ==
  /\ ~home.mounted
  /\ home.mounts < MaxMounts
  /\ LoopExits(signEventRequestHandlers, signId)
  /\ LoopExits(payInvoiceRequestHandlers, payId)
  /\ LET reg == Len(unregisterFns) + 1
         signFn == [kind |-> "sign", handlerId |-> signId,
                    regAt |-> Len(requests), calledAt |-> NotCalled]
         payFn == [kind |-> "pay", handlerId |-> payId,
                   regAt |-> Len(requests), calledAt |-> NotCalled]
     IN /\ signEventRequestHandlers' =
             SetKey(signEventRequestHandlers, signId,
                    [reg |-> reg, beh |-> UiHandler])
        /\ IF IsHomePage(rev)
           THEN /\ payInvoiceRequestHandlers' =
                     SetKey(payInvoiceRequestHandlers, payId,
                            [reg |-> reg + 1, beh |-> UiHandler])
                /\ unregisterFns' = unregisterFns \o <<signFn, payFn>>
                /\ home' = [HomeUnmounted(home.mounts + 1) EXCEPT
                              !.mounted = TRUE, !.regs = {reg, reg + 1},
                              !.signUnreg = reg, !.payUnreg = reg + 1]
           ELSE /\ payId = 0
                /\ UNCHANGED payInvoiceRequestHandlers
                /\ unregisterFns' = Append(unregisterFns, signFn)
                /\ home' = [HomeUnmounted(home.mounts + 1) EXCEPT
                              !.mounted = TRUE, !.regs = {reg}]
  /\ UNCHANGED <<rev, requests, invokeLog, invokeResults, promises, appVars,
                 drawVars, reloadVars>>

\* The component unmounts: the cleanups of its effects run (the closures
\* HomePage kept; App kept none).
Unmount ==
  /\ home.mounted
  /\ signEventRequestHandlers' =
       IF home.signUnreg # 0
       THEN DeleteKey(signEventRequestHandlers,
                      unregisterFns[home.signUnreg].handlerId)
       ELSE signEventRequestHandlers
  /\ payInvoiceRequestHandlers' =
       IF home.payUnreg # 0
       THEN DeleteKey(payInvoiceRequestHandlers,
                      unregisterFns[home.payUnreg].handlerId)
       ELSE payInvoiceRequestHandlers
  /\ unregisterFns' =
       LET fns == IF home.signUnreg # 0
                  THEN Called(unregisterFns, home.signUnreg)
                  ELSE unregisterFns
       IN IF home.payUnreg # 0 THEN Called(fns, home.payUnreg) ELSE fns
  /\ home' = HomeUnmounted(home.mounts)
  /\ UNCHANGED <<rev, requests, invokeLog, invokeResults, promises, appVars,
                 drawVars, reloadVars>>

\* A re-render after a state update, with the effects it triggers.
\* HomePage: the pay-invoice effect has no dependency array (part_005:64-74),
\* so its cleanup runs and it registers handleEvent again under a new
\* handle; the [open] effect (42-46) runs when open has changed and calls
\* handleReject() when the dialog is closed.  App has no effect to re-run.
Render(payId) ==
  /\ home.mounted
  /\ home.dirty
  /\ IF IsHomePage(rev)
     THEN LET deleted == DeleteKey(payInvoiceRequestHandlers,
                                   unregisterFns[home.payUnreg].handlerId)
              reg == Len(unregisterFns) + 1
              closes == home.open # home.openSeen /\ ~home.open
          IN /\ LoopExits(deleted, payId)
             /\ payInvoiceRequestHandlers' =
                  SetKey(deleted, payId, [reg |-> reg, beh |-> UiHandler])
             /\ unregisterFns' =
                  Append(Called(unregisterFns, home.payUnreg),
                         [kind |-> "pay", handlerId |-> payId,
                          regAt |-> Len(requests), calledAt |-> NotCalled])
             /\ promises' =
                  IF closes
                  THEN ResolveWith(promises, home.resolveRejectRef, "false")
                  ELSE promises
             /\ home' = [home EXCEPT !.dirty = FALSE, !.openSeen = home.open,
                                     !.payUnreg = reg,
                                     !.regs = home.regs \cup {reg}]
     ELSE /\ payId = 0
          /\ home' = [home EXCEPT !.dirty = FALSE, !.openSeen = home.open]
          /\ UNCHANGED <<payInvoiceRequestHandlers, unregisterFns, promises>>
  /\ UNCHANGED <<rev, signEventRequestHandlers, requests, invokeLog,
                 invokeResults, appVars, drawVars, reloadVars>>

\* A click on Accept in the open dialog (part_005:76-81, App.tsx:33-38).
HandleAccept ==
  /\ home.mounted
  /\ home.open
  /\ ~home.dirty
  /\ promises' = ResolveWith(promises, home.resolveRejectRef, "true")
  /\ home' = [home EXCEPT !.open = FALSE, !.dirty = TRUE]
  /\ UNCHANGED <<brokerVars, appVars, drawVars, reloadVars>>

\* A click on Reject in the open dialog (part_005:83-88, App.tsx:40-45).
HandleReject ==
  /\ home.mounted
  /\ home.open
  /\ ~home.dirty
  /\ promises' = ResolveWith(promises, home.resolveRejectRef, "false")
  /\ home' = [home EXCEPT !.open = FALSE, !.dirty = TRUE]
  /\ UNCHANGED <<brokerVars, appVars, drawVars, reloadVars>>

\* The dialog is dismissed (Escape, click outside): onOpenChange(false),
\* which is setOpen (part_005:109, App.tsx:52).
CloseDialog ==
  /\ home.mounted
  /\ home.open
  /\ ~home.dirty
  /\ home' = [home EXCEPT !.open = FALSE, !.dirty = TRUE]
  /\ UNCHANGED <<promises, brokerVars, appVars, drawVars, reloadVars>>

\* The promise the listener of request n awaits has been resolved: the
\* listener resumes with the value.
PromiseSettles(n, answer) ==
  /\ n \in 1 .. Len(requests)
  /\ requests[n].pc = "await"
  /\ promises[n] \in {"true", "false"}
  /\ Resume(n, promises[n], answer)

HomeNext ==
  \/ \E signId \in PageHandles, payId \in PageHandles : Mount(signId, payId)
  \/ Unmount
  \/ \E payId \in PageHandles : Render(payId)
  \/ HandleAccept
  \/ HandleReject
  \/ CloseDialog
  \/ \E kind \in {"sign", "pay"}, answer \in InvokeAnswers :
       Arrive(kind, answer)
  \/ \E n \in 1 .. MaxReqs, answer \in InvokeAnswers :
       PromiseSettles(n, answer)

SpecHome == Init /\ [][HomeNext]_vars

\* ------------------------------------------- registration, step by step
\* handleSignEventRequests(handler) is called and makes its first draw
\* (part_001:32).
DrawCall(handler, handlerId) ==
  /\ draw.pc = "idle"
  /\ Len(unregisterFns) < MaxDrawCalls
  /\ handlerId \in GetRandomInt
  /\ draw' = [pc |-> "loop", handler |-> handler, handlerId |-> handlerId,
              retried |-> FALSE]
  /\ UNCHANGED <<brokerVars, appVars, homeVars, reloadVars>>

\* One turn of `while (signEventRequestHandlers[handlerId])` (part_001:33-35):
\* the handle is in use, draw again.  retried is an observation.
DrawAgain(handlerId) ==
  /\ draw.pc = "loop"
  /\ ~LoopExits(signEventRequestHandlers, draw.handlerId)
  /\ handlerId \in GetRandomInt
  /\ draw' = [draw EXCEPT !.handlerId = handlerId, !.retried = TRUE]
  /\ UNCHANGED <<brokerVars, appVars, homeVars, reloadVars>>

\* The loop is left, the handler is inserted and the closure returned
\* (part_001:37-41).
DrawInsert ==
  /\ draw.pc = "loop"
  /\ LoopExits(signEventRequestHandlers, draw.handlerId)
  /\ signEventRequestHandlers' =
       SetKey(signEventRequestHandlers, draw.handlerId,
              [reg |-> Len(unregisterFns) + 1, beh |-> draw.handler])
  /\ unregisterFns' =
       Append(unregisterFns, [kind |-> "sign", handlerId |-> draw.handlerId,
                              regAt |-> Len(requests), calledAt |-> NotCalled])
  /\ draw' = [draw EXCEPT !.pc = "idle"]
  /\ UNCHANGED <<rev, payInvoiceRequestHandlers, requests, invokeLog,
                 invokeResults, appVars, homeVars, reloadVars>>

\* A returned closure is called.  The loop is synchronous: nothing else runs
\* while a call of handleSignEventRequests is in its loop.
DrawUnregister(n) ==
  /\ draw.pc = "idle"
  /\ Unregister(n)

\* A draw that yields a handle that is not in use.
DrawFree ==
  \E handlerId \in Handles :
    /\ LoopExits(signEventRequestHandlers, handlerId)
    /\ DrawAgain(handlerId)

DrawNext ==
  \/ \E handler \in {"true", "false"}, handlerId \in Handles :
       DrawCall(handler, handlerId)
  \/ \E handlerId \in Handles : DrawAgain(handlerId)
  \/ DrawInsert
  \/ \E n \in 1 .. MaxDrawCalls : DrawUnregister(n)

\* Fair random draws: a free handle is not avoided for ever.
SpecDraw ==
  Init /\ [][DrawNext]_vars /\ WF_vars(DrawFree) /\ WF_vars(DrawInsert)

\* ------------------------------------------- subscription and hot reload
\* The generation of the module that is loaded now.
Generation == listeners[Len(listeners)].gen

\* Does the .then callback of listen() hook unlisten to vite:beforeUpdate?
\* part_001:91-98 and 127-134 do; tauriCommands.ts:69-72 drops unlisten.
ThenHooks(r) == r = "part_001"

\* The subscribed listeners of a kind.
Subscribed(kind) ==
  {i \in DOMAIN listeners :
     listeners[i].kind = kind /\ listeners[i].state = "subscribed"}

\* A listen() promise resolves: the listener is subscribed and the .then
\* callback runs.
ListenResolves(i) ==
  /\ i \in DOMAIN listeners
  /\ listeners[i].state = "subscribing"
  /\ listeners' = [listeners EXCEPT ![i].state = "subscribed",
                                    ![i].hooked = ThenHooks(rev)]
  /\ UNCHANGED <<heard, brokerVars, appVars, homeVars, drawVars>>

\* A listen() promise rejects: .catch logs it (part_001:99-101).
ListenRejects(i) ==
  /\ i \in DOMAIN listeners
  /\ listeners[i].state = "subscribing"
  /\ listeners' = [listeners EXCEPT ![i].state = "failed"]
  /\ UNCHANGED <<heard, brokerVars, appVars, homeVars, drawVars>>

\* vite:beforeUpdate: every hooked unlisten is called; when the update
\* reaches this module it is evaluated again and calls listen() anew.
BeforeUpdate(reloads) ==
  /\ reloads => Generation <= MaxReloads
  /\ LET unlistened ==
           [i \in DOMAIN listeners |->
              IF listeners[i].hooked /\ listeners[i].state = "subscribed"
              THEN [listeners[i] EXCEPT !.state = "unlistened"]
              ELSE listeners[i]]
     IN listeners' = IF reloads
                     THEN unlistened \o ListenCalls(rev, Generation + 1)
                     ELSE unlistened
  /\ UNCHANGED <<heard, brokerVars, appVars, homeVars, drawVars>>

\* The backend emits an event of a kind: every subscribed listener of that
\* kind receives it (and each would resolve and answer it).
InboundEvent(kind) ==
  /\ \E i \in DOMAIN ListenKinds(rev) : ListenKinds(rev)[i] = kind
  /\ heard' = Cardinality(Subscribed(kind))
  /\ UNCHANGED <<listeners, brokerVars, appVars, homeVars, drawVars>>

\* The listen() calls there can be in one run.
ListenIndexes == 1 .. (Len(ListenKinds("part_001")) * (MaxReloads + 1))

ReloadNext ==
  \/ \E i \in ListenIndexes : ListenResolves(i)
  \/ \E i \in ListenIndexes : ListenRejects(i)
  \/ \E reloads \in BOOLEAN : BeforeUpdate(reloads)
  \/ \E kind \in {"sign", "pay"} : InboundEvent(kind)

SpecReload == Init /\ [][ReloadNext]_vars

\* ---------------------------------------------------------------- claims
\* The invoke() calls made for request n.
Dispatches(n) == {i \in DOMAIN invokeLog : invokeLog[i].req = n}

\* The listener callback of request n has run to its end (it responded, or
\* an exception left it): every handler it called has settled.
Finished(n) == requests[n].pc # "await"

\* Handler i of request n's snapshot was called and has settled.
Settled(n, i) ==
  \/ i \in 1 .. (requests[n].called - 1)
  \/ i = requests[n].called /\ i >= 1 /\ Finished(n)

\* What handler i of request n's snapshot does.
Beh(n, i) == requests[n].handlers[i].beh

\* Request n was answered by exactly one invoke(), carrying `value`.
DispatchedOnce(n, value) ==
  /\ Cardinality(Dispatches(n)) = 1
  /\ \A i \in Dispatches(n) : invokeLog[i].value = value

SignRequests == {n \in DOMAIN requests : requests[n].kind = "sign"}
PayRequests == {n \in DOMAIN requests : requests[n].kind = "pay"}

\* C1: every request whose called handlers have all settled (returned or
\* thrown) has been answered by exactly one call of the response dispatcher,
\* and no request is ever answered more than once.
C1_ExactlyOneDispatch ==
  \A n \in DOMAIN requests :
    /\ Cardinality(Dispatches(n)) <= 1
    /\ Finished(n) => Cardinality(Dispatches(n)) = 1

\* C2: in sign-event resolution a throwing handler counts as false and the
\* next handler is called; with the snapshot [B throws, A returns true] A is
\* called and the dispatched outcome is true.
C2_ThrowCountsAsFalse ==
  \A n \in SignRequests :
    /\ \A i \in 1 .. Len(requests[n].handlers) :
         Settled(n, i) /\ Beh(n, i) = "throw" /\ i < Len(requests[n].handlers)
           => requests[n].called > i
    /\ ( /\ Finished(n)
         /\ Len(requests[n].handlers) = 2
         /\ Beh(n, 1) = "throw" /\ Beh(n, 2) = "true" )
         => requests[n].called = 2 /\ DispatchedOnce(n, "true")

\* C3: when every handler of the snapshot returns a boolean, the dispatched
\* outcome is the logical OR of the handlers' results.
C3_LogicalOr ==
  \A n \in SignRequests :
    ( /\ Finished(n)
      /\ \A i \in 1 .. Len(requests[n].handlers) :
           Beh(n, i) \in {"true", "false"} )
      => DispatchedOnce(n,
           IF \E i \in 1 .. Len(requests[n].handlers) : Beh(n, i) = "true"
           THEN "true" ELSE "false")

\* C4: once a sign-event handler has returned true, the request is answered
\* with true and no handler after it in the snapshot has been called.
C4_TrueStopsIteration ==
  \A n \in SignRequests :
    \A i \in 1 .. Len(requests[n].handlers) :
      Settled(n, i) /\ Beh(n, i) = "true"
        => /\ requests[n].pc = "responded"
           /\ requests[n].called = i
           /\ DispatchedOnce(n, "true")

C4_Witness ==
  \E n \in SignRequests :
    /\ Len(requests[n].handlers) = 2
    /\ Beh(n, 1) = "true"
    /\ requests[n].pc = "responded"
    /\ requests[n].called = 1
    /\ DispatchedOnce(n, "true")

\* C5: a request that arrived while its registry was empty is answered by
\* exactly one invoke(), with the request's key and the default deny: false
\* for sign-event, rejected for pay-invoice.
C5_EmptyRegistryDefaultDeny ==
  \A n \in DOMAIN requests :
    Len(requests[n].handlers) = 0
      => /\ requests[n].pc = "responded"
         /\ Cardinality(Dispatches(n)) = 1
         /\ \A i \in Dispatches(n) :
              invokeLog[i] =
                IF requests[n].kind = "sign"
                THEN [cmd |-> "respond_to_sign_event_request",
                      key |-> EventId(n), value |-> "false", req |-> n]
                ELSE [cmd |-> "respond_to_pay_invoice_request",
                      key |-> Invoice(n), value |-> "rejected", req |-> n]

C5_Witness ==
  /\ \E n \in SignRequests :
       Len(requests[n].handlers) = 0 /\ DispatchedOnce(n, "false")
  /\ \E n \in PayRequests :
       Len(requests[n].handlers) = 0 /\ DispatchedOnce(n, "rejected")

\* C6: once a pay-invoice handler has returned paid, the request is answered
\* with paid, whatever the handlers before it returned, and no handler after
\* it in the snapshot has been called.
C6_PaidWins ==
  \A n \in PayRequests :
    \A i \in 1 .. Len(requests[n].handlers) :
      Settled(n, i) /\ Beh(n, i) = "paid"
        => /\ requests[n].pc = "responded"
           /\ requests[n].called = i
           /\ DispatchedOnce(n, "paid")

C6_Witness ==
  \E n \in PayRequests :
    /\ Len(requests[n].handlers) = 2
    /\ Beh(n, 1) = "failed" /\ Beh(n, 2) = "paid"
    /\ requests[n].called = 2
    /\ DispatchedOnce(n, "paid")

C8_RejectedNeverVetoes ==
  \A n \in PayRequests :
    /\ \A i \in 1 .. Len(requests[n].handlers) :
         Settled(n, i) /\ Beh(n, i) = "rejected"
                       /\ i < Len(requests[n].handlers)
           => requests[n].called > i
    /\ \A d \in Dispatches(n) :
         invokeLog[d].value = "rejected"
           => /\ requests[n].called = Len(requests[n].handlers)
              /\ \A i \in 1 .. Len(requests[n].handlers) :
                   Beh(n, i) = "rejected"

C8_Witness ==
  \E n \in PayRequests :
    /\ Len(requests[n].handlers) = 2
    /\ Beh(n, 1) = "rejected" /\ Beh(n, 2) = "paid"
    /\ requests[n].called = 2
    /\ DispatchedOnce(n, "paid")

\* C9: a pay-invoice handler that throws is recovered inside the loop: the
\* next handler of the snapshot is called, and the request is still answered
\* by one invoke().
C9_PayThrowRecovered ==
  \A n \in PayRequests :
    \A i \in 1 .. Len(requests[n].handlers) :
      Settled(n, i) /\ Beh(n, i) = "throw"
        => /\ i < Len(requests[n].handlers) => requests[n].called > i
           /\ Finished(n) => Cardinality(Dispatches(n)) = 1

\* C10: a call of the unregister function of registration n, first or
\* repeated, leaves every registry entry of another registration in place.
C10_UnregisterRemovesOnlyOwnEntry ==
  [][\A n \in 1 .. Len(unregisterFns) :
       Unregister(n) =>
         \A h \in Handles :
           /\ signEventRequestHandlers[h].reg # n
                => signEventRequestHandlers'[h] = signEventRequestHandlers[h]
           /\ payInvoiceRequestHandlers[h].reg # n
                => payInvoiceRequestHandlers'[h] = payInvoiceRequestHandlers[h]
    ]_vars

\* The registry of a kind, and the number of handlers it holds.
Registry(kind) ==
  IF kind = "sign" THEN signEventRequestHandlers
  ELSE payInvoiceRequestHandlers

RegistrySize(kind) ==
  Cardinality({h \in Handles : Registry(kind)[h] # NoHandler})

\* The registrations of a kind whose own unregister function has not been
\* called.
NotUnregistered(kind) ==
  {r \in DOMAIN unregisterFns :
     unregisterFns[r].kind = kind /\ unregisterFns[r].calledAt = NotCalled}

\* Registration r was made before request n arrived and its own unregister
\* function had not been called when n arrived.
ActiveAt(r, n) ==
  /\ unregisterFns[r].kind = requests[n].kind
  /\ unregisterFns[r].regAt < n
  /\ unregisterFns[r].calledAt = NotCalled \/ unregisterFns[r].calledAt >= n

\* The registrations whose handlers were called for request n.
InvokedRegs(n) ==
  {requests[n].invoked[i].reg : i \in DOMAIN requests[n].invoked}

\* C11: every registration that was not unregistered holds its own handle
\* (no registration overwrote it), and the size of a registry is the number
\* of registrations of its kind not yet unregistered.
C11_OneEntryPerLiveRegistration ==
  \A kind \in {"sign", "pay"} :
    /\ \A r \in NotUnregistered(kind) :
         Registry(kind)[unregisterFns[r].handlerId].reg = r
    /\ RegistrySize(kind) = Cardinality(NotUnregistered(kind))

\* C12: a handler is called for a request only if its registration was
\* active when the request arrived, and every registration active at the
\* arrival has its handler called unless the loop stopped early on an
\* approving handler.
C12_ActiveExactlyUntilUnregistered ==
  \A n \in DOMAIN requests :
    /\ \A r \in InvokedRegs(n) : ActiveAt(r, n)
    /\ Finished(n) =>
         \/ \E i \in DOMAIN requests[n].invoked :
              requests[n].invoked[i].beh \in {"true", "paid"}
         \/ \A r \in DOMAIN unregisterFns :
              ActiveAt(r, n) => r \in InvokedRegs(n)

\* The outcome of one request resolved alone: the loop of its listener over
\* the results behs[i], behs[i+1], ... from the remembered value; "none"
\* when an exception leaves the callback.
RECURSIVE Resolve(_, _, _, _)
Resolve(kind, behs, i, value) ==
  IF i > Len(behs)
  THEN IF kind = "sign" THEN SignFinal(rev, value) ELSE value
  ELSE IF behs[i] = "throw" /\ ~Catches(rev, kind) THEN "none"
  ELSE IF kind = "sign"
       THEN LET v == IF behs[i] = "throw" THEN CaughtValue ELSE behs[i]
            IN IF SignBreaks(rev, v) THEN SignFinal(rev, v)
               ELSE Resolve(kind, behs, i + 1, v)
       ELSE LET st == PayStep(value, behs[i])
            IN IF st.brk THEN st.response
               ELSE Resolve(kind, behs, i + 1, st.response)

SnapshotBehs(n) ==
  [i \in DOMAIN requests[n].handlers |-> requests[n].handlers[i].beh]

\* C13: every invoke() carries the command of its request's kind, the
\* correlation key of that request and the outcome of that request's own
\* handlers, however the handler calls of several requests interleave.
C13_DispatchCarriesOwnKeyAndOutcome ==
  \A d \in DOMAIN invokeLog :
    LET n == invokeLog[d].req
    IN /\ n \in DOMAIN requests
       /\ invokeLog[d].cmd =
            (IF requests[n].kind = "sign" THEN "respond_to_sign_event_request"
             ELSE "respond_to_pay_invoice_request")
       /\ invokeLog[d].key =
            (IF requests[n].kind = "sign" THEN EventId(n) ELSE Invoice(n))
       /\ invokeLog[d].value =
            Resolve(requests[n].kind, SnapshotBehs(n), 1,
                    IF requests[n].kind = "sign" THEN InitIsApproved(rev)
                    ELSE InitResponse)

\* Two sign-event requests with handlers, the later one answered first and
\* with another outcome: their resolutions overlapped.
C13_Witness ==
  /\ Len(invokeLog) = 2
  /\ invokeLog[1].req = 2 /\ invokeLog[2].req = 1
  /\ requests[1].kind = "sign" /\ requests[2].kind = "sign"
  /\ requests[1].called >= 1 /\ requests[2].called >= 1
  /\ invokeLog[1].value # invokeLog[2].value

\* C14: at most one handler call of a request is in flight: it is the last
\* handler called, and every handler called before it has settled.
C14_HandlerCallsSequential ==
  \A n \in DOMAIN requests :
    /\ Cardinality(requests[n].inflight) <= 1
    /\ requests[n].inflight =
         (IF requests[n].pc = "await" THEN {requests[n].called} ELSE {})
    /\ Len(requests[n].invoked) = requests[n].called

C14_Witness ==
  \E n \in DOMAIN requests :
    /\ requests[n].pc = "await"
    /\ requests[n].called = 2
    /\ requests[n].inflight = {2}

\* C15: the outcomes of requests of one kind are dispatched in the order in
\* which the requests arrived.
C15_DispatchInArrivalOrder ==
  \A i, j \in DOMAIN invokeLog :
    (i < j /\ invokeLog[i].cmd = invokeLog[j].cmd)
      => invokeLog[i].req < invokeLog[j].req

\* C16: while a called handler of a request has not settled, no outcome has
\* been dispatched for the request and no later handler has been called; and
\* a suspended request moves on only by its handler settling (nothing else,
\* such as a timeout, resumes or answers it).
C16_PendingWhileHandlerUnsettled ==
  /\ [](\A n \in DOMAIN requests :
          requests[n].pc = "await"
            => /\ Dispatches(n) = {}
               /\ Len(requests[n].invoked) = requests[n].called
               /\ requests[n].inflight = {requests[n].called})
  /\ [][\A n \in DOMAIN requests :
          (requests[n].pc = "await" /\ requests'[n] # requests[n])
            => \E answer \in InvokeAnswers : Settle(n, answer)]_vars

\* Request 1 still waits for its first handler, with a second handler to
\* come, while request 2, which arrived later, has been resolved.
C16_Witness ==
  /\ Len(requests) = 2
  /\ requests[1].pc = "await" /\ requests[1].called = 1
  /\ Len(requests[1].handlers) = 2
  /\ Dispatches(1) = {}
  /\ requests[2].pc = "responded" /\ requests[2].called >= 1

\* C17: every entry of a registry was put there by a registration of its
\* kind, a request calls only handlers registered for its kind, and a
\* register or unregister call of one kind leaves the other registry
\* unchanged.
C17_RegistriesIndependent ==
  /\ [](/\ \A kind \in {"sign", "pay"} : \A h \in Handles :
             Registry(kind)[h] # NoHandler
               => /\ unregisterFns[Registry(kind)[h].reg].kind = kind
                  /\ unregisterFns[Registry(kind)[h].reg].handlerId = h
        /\ \A n \in DOMAIN requests : \A r \in InvokedRegs(n) :
             unregisterFns[r].kind = requests[n].kind)
  /\ [][/\ \A handler \in SignEventRequestHandler, handlerId \in Handles :
            HandleSignEventRequests(handler, handlerId)
              => payInvoiceRequestHandlers' = payInvoiceRequestHandlers
        /\ \A handler \in PayInvoiceRequestHandler, handlerId \in Handles :
            HandlePayInvoiceRequests(handler, handlerId)
              => signEventRequestHandlers' = signEventRequestHandlers
        /\ \A n \in DOMAIN unregisterFns :
            Unregister(n)
              => IF unregisterFns[n].kind = "sign"
                 THEN payInvoiceRequestHandlers' = payInvoiceRequestHandlers
                 ELSE signEventRequestHandlers' = signEventRequestHandlers
       ]_vars

\* The same handle is live in both registries, the sign-event closure of
\* that handle has been called and the pay-invoice entry is still there.
C17_Witness ==
  \E h \in Handles : \E r \in DOMAIN unregisterFns :
    /\ payInvoiceRequestHandlers[h] # NoHandler
    /\ unregisterFns[r].kind = "sign"
    /\ unregisterFns[r].handlerId = h
    /\ unregisterFns[r].regAt = 1
    /\ unregisterFns[payInvoiceRequestHandlers[h].reg].regAt = 0
    /\ unregisterFns[r].calledAt # NotCalled
    /\ signEventRequestHandlers[h] = NoHandler

\* C18: a request is never dispatched twice, and a dispatch the backend
\* rejects is logged: it does not end as an unhandled rejection.
C18_DispatchFailureLoggedNotRetried ==
  /\ \A n \in DOMAIN requests : Cardinality(Dispatches(n)) <= 1
  /\ \A d \in DOMAIN invokeResults :
       invokeResults[d] \in {"fulfilled", "logged"}

\* C20: the handlers called for a request are, in order, the handlers that
\* were in the registry when the request arrived: each was registered before
\* the arrival, whatever was registered or unregistered since.
C20_HandlersAreArrivalSnapshot ==
  \A n \in DOMAIN requests :
    /\ Len(requests[n].invoked) <= Len(requests[n].handlers)
    /\ \A i \in DOMAIN requests[n].invoked :
         /\ requests[n].invoked[i] = requests[n].handlers[i]
         /\ unregisterFns[requests[n].invoked[i].reg].regAt < n

\* A sign-event handler was registered after request 1 arrived and before
\* request 2 arrived; request 2 was answered before request 1; request 1 ran
\* its loop to the end and called only the one handler of its snapshot.
C20_Witness ==
  /\ Len(requests) = 2 /\ Len(invokeLog) = 2
  /\ requests[1].kind = "sign" /\ requests[2].kind = "sign"
  /\ invokeLog[1].req = 2 /\ invokeLog[2].req = 1
  /\ Len(requests[1].invoked) = 1
  /\ requests[1].invoked[1].beh = "false"
  /\ invokeLog[2].value = "false"
  /\ \E r \in InvokedRegs(2) : unregisterFns[r].regAt = 1

\* C19: once the backend has answered getPublicKey() with an empty or absent
\* key, or the call has failed, the guard's pubkey is null and it renders the
\* redirect to the login page; its pubkey is a key only when the backend
\* returned that non-empty key; and the guard is left only by that redirect.
C19_GuardNotLoggedInOnEmptyKey ==
  /\ [](guard.mounted =>
          /\ guard.answer \in {"", "absent", "error"}
               => /\ guard.pubkey = "null"
                  /\ ProtectedRouteRender(guard.pubkey) = "Navigate"
          /\ guard.pubkey \in PublicKeys
               => /\ guard.answer = guard.pubkey
                  /\ ProtectedRouteRender(guard.pubkey) = "children"
          /\ guard.pubkey \in PublicKeys \cup {"undefined", "null"})
  /\ [][(guard.mounted /\ ~guard'.mounted)
          => /\ guard.pubkey = "null"
             /\ guard.answer \in {"", "absent", "error"}
             /\ location' = "/login"]_vars

\* After a successful login the backend answers with an empty key: the guard
\* is in the not-logged-in state.
C19_Witness ==
  /\ guard.mounted
  /\ storePubkey \in PublicKeys
  /\ guard.answer = ""
  /\ guard.pubkey = "null"

\* C22: in sign-event resolution a handler result that is not a boolean
\* counts as false and the iteration goes on to the next handler; the value
\* passed to the dispatcher is always exactly true or false.
C22_NonBooleanIsFalse ==
  \A n \in SignRequests :
    /\ \A i \in Dispatches(n) : IsBoolean(invokeLog[i].value)
    /\ \A i \in DOMAIN requests[n].handlers :
         (Settled(n, i) /\ Beh(n, i) = "undefined")
           => IF i < Len(requests[n].handlers)
              THEN requests[n].called > i
              ELSE DispatchedOnce(n, "false")

\* C27: a step of a listener (an arrival, a resumption, a dispatch) leaves
\* both registries as they are.
C27_ResolutionLeavesRegistries ==
  [][(requests' # requests \/ invokeLog' # invokeLog)
       => UNCHANGED <<signEventRequestHandlers, payInvoiceRequestHandlers>>]_vars

\* A request went through two handlers and was answered, and both handlers
\* are still registered.
C27_Witness ==
  \E n \in DOMAIN requests :
    /\ requests[n].pc = "responded"
    /\ Len(requests[n].invoked) = 2
    /\ ObjectValues(Registry(requests[n].kind)) = requests[n].handlers

\* Precedence of a pay-invoice response: rejected < failed < paid.
Rank(response) ==
  IF response = "paid" THEN 2 ELSE IF response = "failed" THEN 1 ELSE 0

\* The highest precedence among the results of the handlers request n called.
HighestRank(n) ==
  LET ranks == {Rank(requests[n].invoked[i].beh) :
                  i \in DOMAIN requests[n].invoked} \cup {0}
  IN CHOOSE r \in ranks : \A q \in ranks : q <= r

\* C28: the remembered pay-invoice response starts at rejected and never
\* moves down in rejected < failed < paid; the dispatched outcome is the
\* highest-precedence result among the handlers called and is one of paid,
\* failed, rejected.
C28_ResponseNeverMovesDown ==
  /\ [](\A n \in PayRequests :
          /\ requests[n].value \in PayInvoiceResponse
          /\ (requests[n].called = 0
                \/ (requests[n].called = 1 /\ requests[n].pc = "await"))
               => requests[n].value = "rejected"
          /\ \A i \in Dispatches(n) :
               /\ invokeLog[i].value \in PayInvoiceResponse
               /\ Rank(invokeLog[i].value) = HighestRank(n))
  /\ [][\A n \in PayRequests :
          Rank(requests'[n].value) >= Rank(requests[n].value)]_vars

\* A failed result stayed remembered over a later rejected one and then
\* was dispatched.
C28_Witness ==
  \E n \in PayRequests :
    /\ Dispatches(n) # {}
    /\ Len(requests[n].invoked) = 2
    /\ requests[n].invoked[1].beh = "failed"
    /\ requests[n].invoked[2].beh = "rejected"
    /\ requests[n].value = "failed"

\* Every handle of the range is in the sign-event registry.
RegistryFull == \A h \in Handles : signEventRequestHandlers[h] # NoHandler

\* C25: while a handle of the range is free, the draw-and-retry loop of a
\* registration terminates (under fair draws) and the call returns with the
\* handler inserted at a handle that was free; when every handle is in use
\* the loop is never left.
C25_RegistrationTerminates ==
  /\ (draw.pc = "loop" /\ ~RegistryFull) ~> (draw.pc = "idle")
  /\ [][(draw.pc = "loop" /\ draw'.pc = "idle")
          => /\ signEventRequestHandlers[draw'.handlerId] = NoHandler
             /\ signEventRequestHandlers'[draw'.handlerId] =
                  [reg |-> Len(unregisterFns'), beh |-> draw.handler]]_vars
  /\ [][(draw.pc = "loop" /\ RegistryFull) => draw'.pc = "loop"]_vars

\* A call has returned after at least one retry, its handler inserted.
C25_Witness ==
  /\ draw.pc = "idle"
  /\ draw.retried
  /\ signEventRequestHandlers[draw.handlerId] =
       [reg |-> Len(unregisterFns), beh |-> draw.handler]

\* C24: at most one listener per request kind is subscribed at any time,
\* also across module reloads, and an inbound request is received by at most
\* one listener.
C24_AtMostOneListenerPerKind ==
  /\ \A kind \in {"sign", "pay"} : Cardinality(Subscribed(kind)) <= 1
  /\ heard <= 1

\* The requests whose pending promise was returned by a handler of the
\* mounted page component.
PendingInUi ==
  {n \in DOMAIN requests :
     /\ promises[n] = "pending"
     /\ home.mounted
     /\ requests[n].invoked[Len(requests[n].invoked)].reg \in home.regs}

\* C21: once the dialog is closed (and the effects of the closing render
\* have run), no request handed to the UI handler is still pending,
\* sign-event or pay-invoice.
C21_ClosedDialogLeavesNothingPending ==
  (home.mounted /\ ~home.open /\ ~home.dirty) => PendingInUi = {}

\* C23: each registry holds exactly one handler per mounted page component
\* and none when it is not mounted.
C23_RegistryFollowsMount ==
  /\ RegistrySize("sign") = IF home.mounted THEN 1 ELSE 0
  /\ RegistrySize("pay") =
       IF home.mounted /\ IsHomePage(rev) THEN 1 ELSE 0

\* C26: a sign-event request whose promise is pending in the UI has its
\* resolver in resolveRejectRef, so a later Accept, Reject or close
\* resolves it.
C26_NoPendingRequestLosesResolver ==
  \A n \in PendingInUi :
    requests[n].kind = "sign" => home.resolveRejectRef = n

\* C29: the route guard shows its children only once the backend has
\* confirmed a non-empty public key; not while getPublicKey() is outstanding.
C29_NoChildrenBeforeKeyConfirmed ==
  (guard.mounted /\ ProtectedRouteRender(guard.pubkey) = "children")
    => guard.pubkey \in PublicKeys

\* C30: a register answer with status error leaves the stored public key
\* and the location as they are; the key is stored and the home page
\* navigated to only on a success answer; and once a submit has finished
\* the loading flag is false.
C30_LoginOnlyOnSuccess ==
  /\ [][(login'.answer = "error" /\ login.answer # "error")
          => UNCHANGED <<storePubkey, location>>]_vars
  /\ [](login.answer = "error" => (location = "/login" /\ login.mounted))
  /\ [][(storePubkey' # storePubkey \/ (location = "/login" /\ location' = "/"))
          => /\ login'.answer = "success"
             /\ storePubkey' = login.register
             /\ location' = "/"]_vars
  /\ []((login.answer # "none" /\ login.register = "none")
          => ~login.isLoading)

====
